---- MODULE Spec2Model ----
(***************************************************************************)
(* Image-to-PDF converter (pdf_converter_api_teaching_part.py).            *)
(*                                                                         *)
(* File names and format strings are sequences of character codes, so that *)
(* str.lower(), str.lstrip('.'), Path.suffix and Python's string order are *)
(* computed, not assumed.  The file system is a sequence of entries; the   *)
(* order of the sequence is the order in which a directory enumerates.     *)
(***************************************************************************)
EXTENDS Integers, Sequences, FiniteSets, TLC

VARIABLES fs, listed, last, prev, calls, ups

vars == <<fs, listed, last, prev, calls, ups>>

(***************************************************************************)
(* Bounds of the model.                                                    *)
(***************************************************************************)
MaxEntries == 3
MaxRetries == 1
MaxUploads == 3
MaxRequests == 2

(***************************************************************************)
(* Strings.                                                                *)
(***************************************************************************)
Dot == 46

Range(s) == {s[i] : i \in 1..Len(s)}

\* str.lower() on ASCII text
LowerChar(c) == IF c >= 65 /\ c <= 90 THEN c + 32 ELSE c

LowerStr(s) == [i \in 1..Len(s) |-> LowerChar(s[i])]

\* str.lstrip('.'): every leading dot goes
RECURSIVE LStripDot(_)
LStripDot(s) ==
  IF s # <<>> /\ Head(s) = Dot THEN LStripDot(Tail(s)) ELSE s

\* Python's order on str: code point by code point, a proper prefix first
RECURSIVE StrLE(_, _)
StrLE(a, b) ==
  IF a = <<>> THEN TRUE
  ELSE IF b = <<>> THEN FALSE
  ELSE IF Head(a) < Head(b) THEN TRUE
  ELSE IF Head(a) > Head(b) THEN FALSE
  ELSE StrLE(Tail(a), Tail(b))

\* PurePath.suffix of a final component: from its last dot on; empty when
\* there is no dot, the only dot leads the name, or the name ends with it
Suffix(name) ==
  LET dots == {i \in 1..Len(name) : name[i] = Dot}
      i == IF dots = {} THEN 0 ELSE CHOOSE k \in dots : \A j \in dots : j <= k
  IN IF i > 1 /\ i < Len(name) THEN SubSeq(name, i, Len(name)) ELSE <<>>

\* the file names and format strings of the model, with their text
n_in      == <<105, 110>>                               \* in
n_missing == <<110, 111>>                               \* no
n_out     == <<111, 117, 116>>                          \* out
n_tmp     == <<116, 109, 112>>                          \* tmp
a_png     == <<97, 46, 112, 110, 103>>                  \* a.png
A_PNG     == <<65, 46, 80, 78, 71>>                     \* A.PNG
B_png     == <<66, 46, 112, 110, 103>>                  \* B.png
c_png     == <<99, 46, 112, 110, 103>>                  \* c.png
a_jpg     == <<97, 46, 106, 112, 103>>                  \* a.jpg
b_gif     == <<98, 46, 103, 105, 102>>                  \* b.gif
bad_jpg   == <<98, 97, 100, 46, 106, 112, 103>>         \* bad.jpg
n_txt     == <<110, 46, 116, 120, 116>>                 \* n.txt
d_png     == <<100, 46, 112, 110, 103>>                 \* d.png
x_png     == <<120, 46, 112, 110, 103>>                 \* x.png
out_pdf   == <<111, 117, 116, 46, 112, 100, 102>>       \* out.pdf
out_png   == <<111, 117, 116, 46, 112, 110, 103>>       \* out.png
output_pdf_name == <<111, 117, 116, 112, 117, 116, 46, 112, 100, 102>> \* output.pdf
f_png     == <<112, 110, 103>>                          \* png
f_PNG     == <<80, 78, 71>>                             \* PNG
f_dotJPG  == <<46, 74, 80, 71>>                         \* .JPG
f_gif     == <<103, 105, 102>>                          \* gif
f_exe     == <<101, 120, 101>>                          \* exe

SUPPORTED_FORMATS ==
  { <<46, 112, 110, 103>>,            \* .png
    <<46, 106, 112, 103>>,            \* .jpg
    <<46, 106, 112, 101, 103>>,       \* .jpeg
    <<46, 98, 109, 112>>,             \* .bmp
    <<46, 116, 105, 102, 102>>,       \* .tiff
    <<46, 116, 105, 102>>,            \* .tif
    <<46, 103, 105, 102>> }           \* .gif

(***************************************************************************)
(* The file system: entries [path, kind, mtime, data] in enumeration order.*)
(* A path is the sequence of its components.  data.t says what the bytes   *)
(* are: "img" a decodable image, "junk" anything else, "pdf" the encoder's *)
(* output for the images data.v, "empty" no bytes, "part" a prefix of a    *)
(* pdf, "dir" a directory.                                                 *)
(***************************************************************************)
Img(id) == [t |-> "img", v |-> <<id>>]
Junk(id) == [t |-> "junk", v |-> <<id>>]
NoBytes == [t |-> "empty", v |-> <<>>]
DirData == [t |-> "dir", v |-> <<>>]

File(p, m, d) == [path |-> p, kind |-> "file", mtime |-> m, data |-> d]
Dir(p) == [path |-> p, kind |-> "dir", mtime |-> 0, data |-> DirData]

Name(p) == p[Len(p)]
Parent(p) == SubSeq(p, 1, Len(p) - 1)

Index(f, p) ==
  LET hits == {i \in 1..Len(f) : f[i].path = p}
  IN IF hits = {} THEN 0 ELSE CHOOSE i \in hits : TRUE

Exists(f, p) == Index(f, p) # 0
IsDir(f, p) == Exists(f, p) /\ f[Index(f, p)].kind = "dir"

\* what a reader of path p finds: the entry's data, "none" when absent
Content(f, p) ==
  IF Exists(f, p) THEN f[Index(f, p)].data ELSE [t |-> "none", v |-> <<>>]

RECURSIVE Filter(_, _)
Filter(s, keep) ==
  IF s = <<>> THEN <<>>
  ELSE IF Head(s) \in keep THEN <<Head(s)>> \o Filter(Tail(s), keep)
  ELSE Filter(Tail(s), keep)

\* Path.iterdir(): the direct children, in the directory's enumeration order
iterdir(f, d) ==
  Filter(f, {f[i] : i \in {j \in 1..Len(f) : Len(f[j].path) = Len(d) + 1
                                              /\ Parent(f[j].path) = d}})

RECURSIVE MaxMtime(_)
MaxMtime(f) ==
  IF f = <<>> THEN 0
  ELSE LET m == MaxMtime(Tail(f))
       IN IF Head(f).mtime > m THEN Head(f).mtime ELSE m

(***************************************************************************)
(* validate_directory                                                      *)
(***************************************************************************)
validate_directory(f, directory) ==
  IF ~Exists(f, directory) THEN "ValueError"
  ELSE IF ~IsDir(f, directory) THEN "ValueError"
  ELSE "ok"

(***************************************************************************)
(* get_image_files.  A request's formats are [some, list]: some = FALSE is *)
(* Python's None.                                                          *)
(***************************************************************************)
None == [some |-> FALSE, list |-> <<>>]
Some(l) == [some |-> TRUE, list |-> l]

\* f".{fmt.lower().lstrip('.')}"
NormalizeFormat(fmt) == <<Dot>> \o LStripDot(LowerStr(fmt))

\* lines 95-99: the default list and the normalized set
FormatsSet(formats) ==
  LET fmts == IF ~formats.some
              THEN {LStripDot(x) : x \in SUPPORTED_FORMATS}
              ELSE Range(formats.list)
  IN {NormalizeFormat(x) : x \in fmts}

\* lines 101-105: unsupported formats are dropped
EffectiveFormats(formats) ==
  LET formats_set == FormatsSet(formats)
      invalid_formats == formats_set \ SUPPORTED_FORMATS
  IN IF invalid_formats # {} THEN formats_set \cap SUPPORTED_FORMATS
     ELSE formats_set

\* line 110: file_path.is_file() and file_path.suffix.lower() in formats_set
\* the same test without is_file(), and without the suffix test
IsImageFileNoFileTest(e, formats_set) ==
  LowerStr(Suffix(Name(e.path))) \in formats_set

IsImageFileAnySuffix(e, formats_set) ==
  e.kind = "file"

IsImageFile(e, formats_set) ==
  e.kind = "file" /\ LowerStr(Suffix(Name(e.path))) \in formats_set

\* lines 108-111
RECURSIVE Collect(_, _)
Collect(entries, formats_set) ==
  IF entries = <<>> THEN <<>>
  ELSE IF IsImageFile(Head(entries), formats_set)
       THEN <<Head(entries)>> \o Collect(Tail(entries), formats_set)
       ELSE Collect(Tail(entries), formats_set)

\* lines 114-117: the sort key, and its order
\* the key without lower()
NameKeyCaseSensitive(e) == Name(e.path)

NameKey(e) == LowerStr(Name(e.path))

KeyLE(a, b, sort_order) ==
  IF sort_order = "modified" THEN a.mtime <= b.mtime
  ELSE StrLE(NameKey(a), NameKey(b))

\* list.sort(key=...): a stable sort.  x goes after every element whose key
\* is not greater than its own
RECURSIVE Insert(_, _, _)
Insert(x, sorted, sort_order) ==
  IF sorted = <<>> THEN <<x>>
  ELSE IF KeyLE(Head(sorted), x, sort_order)
       THEN <<Head(sorted)>> \o Insert(x, Tail(sorted), sort_order)
       ELSE <<x>> \o sorted

RECURSIVE SortBy(_, _, _)
SortBy(todo, done, sort_order) ==
  IF todo = <<>> THEN done
  ELSE SortBy(Tail(todo), Insert(Head(todo), done, sort_order), sort_order)

get_image_files(f, directory, formats, sort_order) ==
  SortBy(Collect(iterdir(f, directory), EffectiveFormats(formats)), <<>>, sort_order)

(***************************************************************************)
(* convert_images_to_pdf.  Its result is [fs, raised, exc, cause, success, *)
(* images_converted, has_output_path, encoder_called, encoder_args,        *)
(* encoder_bytes, write_failed].                                           *)
(***************************************************************************)
NoPdf == [t |-> "none", v |-> <<>>]

\* lines 181-184: except Exception -> raise IOError(...) from e
WrapException(e) == "IOError"

Raised(f, e, called, args, bytes, wfail) ==
  [fs |-> f, raised |-> TRUE, exc |-> WrapException(e), cause |-> e,
   success |-> FALSE, images_converted |-> 0, has_output_path |-> FALSE,
   encoder_called |-> called, encoder_args |-> args, encoder_bytes |-> bytes,
   write_failed |-> wfail]

Returned(f, ok, n, called, args, bytes) ==
  [fs |-> f, raised |-> FALSE, exc |-> "", cause |-> "",
   success |-> ok, images_converted |-> n, has_output_path |-> ok,
   encoder_called |-> called, encoder_args |-> args, encoder_bytes |-> bytes,
   write_failed |-> FALSE]

\* line 151: if not image_files
\* the test left out
NoImagesNever(image_files) == FALSE

NoImages(image_files) == image_files = <<>>

\* line 166: Path.mkdir(parents=True, exist_ok=True); <<>> is the working
\* directory
RECURSIVE mkdir_parents(_, _)
mkdir_parents(f, p) ==
  IF p = <<>> \/ IsDir(f, p) THEN [ok |-> TRUE, fs |-> f]
  ELSE IF Exists(f, p) THEN [ok |-> FALSE, fs |-> f]
  ELSE LET up == mkdir_parents(f, Parent(p))
       IN IF ~up.ok THEN up
          ELSE [ok |-> TRUE, fs |-> Append(up.fs, Dir(p))]

\* line 168: open(path, "wb") creates the file or truncates it
open_wb(f, p) ==
  IF IsDir(f, p) THEN [ok |-> FALSE, fs |-> f]
  ELSE IF Exists(f, p)
       THEN [ok |-> TRUE,
             fs |-> [f EXCEPT ![Index(f, p)].data = NoBytes,
                              ![Index(f, p)].mtime = MaxMtime(f) + 1]]
       ELSE [ok |-> TRUE, fs |-> Append(f, File(p, MaxMtime(f) + 1, NoBytes))]

\* f.write(bytes): all of them, or a prefix when the write fails
write_bytes(f, p, bytes, fails) ==
  [f EXCEPT ![Index(f, p)].data =
      IF fails THEN [t |-> "part", v |-> bytes.v] ELSE bytes]

\* line 169: img2pdf.convert(image_paths), the external encoder.  It reads
\* the files as they are when it runs, fails when one of them is not a
\* decodable image, and otherwise returns bytes fixed by the images in order
RECURSIVE ImageIds(_, _)
ImageIds(f, paths) ==
  IF paths = <<>> THEN <<>>
  ELSE Content(f, Head(paths)).v \o ImageIds(f, Tail(paths))

img2pdf_convert(f, paths) ==
  IF paths # <<>> /\ \A i \in 1..Len(paths) : Content(f, paths[i]).t = "img"
  THEN [ok |-> TRUE, bytes |-> [t |-> "pdf", v |-> ImageIds(f, paths)]]
  ELSE [ok |-> FALSE, bytes |-> NoPdf]

\* lines 161-169, from the path list on
WriteOutput(f, image_paths, output_pdf_path, write_fails) ==
  LET made == mkdir_parents(f, Parent(output_pdf_path))
  IN IF ~made.ok THEN Raised(made.fs, "OSError", FALSE, <<>>, NoPdf, FALSE)
     ELSE LET opened == open_wb(made.fs, output_pdf_path)
          IN IF ~opened.ok
             THEN Raised(opened.fs, "OSError", FALSE, <<>>, NoPdf, FALSE)
             ELSE LET enc == img2pdf_convert(opened.fs, image_paths)
                  IN IF ~enc.ok
                     THEN Raised(opened.fs, "EncoderError", TRUE, image_paths,
                                 NoPdf, FALSE)
                     ELSE IF write_fails
                     THEN Raised(write_bytes(opened.fs, output_pdf_path,
                                             enc.bytes, TRUE),
                                 "OSError", TRUE, image_paths, enc.bytes, TRUE)
                     ELSE Returned(write_bytes(opened.fs, output_pdf_path,
                                               enc.bytes, FALSE),
                                   TRUE, Len(image_paths), TRUE, image_paths,
                                   enc.bytes)

convert_images_to_pdf(f, input_dir, output_pdf_path, image_formats, sort_order, write_fails) ==
  IF validate_directory(f, input_dir) # "ok"
  THEN Raised(f, validate_directory(f, input_dir), FALSE, <<>>, NoPdf, FALSE)
  ELSE LET image_files == get_image_files(f, input_dir, image_formats, sort_order)
       IN IF NoImages(image_files)
          THEN Returned(f, FALSE, 0, FALSE, <<>>, NoPdf)
          ELSE WriteOutput(f, [i \in 1..Len(image_files) |-> image_files[i].path],
                           output_pdf_path, write_fails)

(***************************************************************************)
(* The adapters over convert_images_to_pdf.                                *)
(***************************************************************************)
\* lines 259-265: the status an exception of the call is answered with
http_status(exc) ==
  IF exc = "ValueError" THEN 400
  ELSE IF exc = "IOError" THEN 500
  ELSE 500

\* lines 382-388: the process ends 0 after print(result["message"]); an
\* exception that nothing catches ends it 1
cli_exit_code(res) == IF res.raised THEN 1 ELSE 0

Request(d, o, fm, so) ==
  [input_dir |-> d, output_pdf_path |-> o, image_formats |-> fm, sort_order |-> so]

\* what a call leaves in last: its result without the file system, which is
\* fs itself
Outcome(res) == [k \in DOMAIN res \ {"fs"} |-> res[k]]

NoCall ==
  [via |-> "none", req |-> Request(<<>>, <<>>, None, ""), before |-> <<>>,
   res |-> Outcome(Returned(<<>>, FALSE, 0, FALSE, <<>>, NoPdf)),
   out_after |-> NoPdf, status |-> 0, exit_code |-> -1]

NotListed ==
  [called |-> FALSE, formats |-> None, sort_order |-> "", entries |-> <<>>,
   formats_set |-> {}, result |-> <<>>]

(***************************************************************************)
(* The inputs.                                                             *)
(***************************************************************************)
InDir == <<n_in>>
OutDir == <<n_out>>
TmpRoot == <<n_tmp>>

SeqsNoRep(U, n) ==
  UNION {{s \in [1..k -> U] : \A i, j \in 1..k : i # j => s[i] # s[j]} : k \in 0..n}

\* what a listed directory may hold, in any enumeration order: images with
\* ties in both sort keys and a directory named like an image
ListEntries ==
  { File(<<n_in, a_jpg>>, 3, Img(1)), File(<<n_in, b_gif>>, 1, Img(2)),
    File(<<n_in, c_png>>, 2, Img(3)), File(<<n_in, B_png>>, 2, Img(4)),
    File(<<n_in, a_png>>, 1, Img(5)), File(<<n_in, A_PNG>>, 1, Img(6)),
    Dir(<<n_in, d_png>>) }

\* what a converted directory may hold: two images, a file named like an
\* image that is none, a file that is no image, a directory named like an
\* image.  The directory enumerates in this order or in its reverse; neither
\* is sorted by name or by modification time
ConvOrder ==
  << File(<<n_in, n_txt>>, 1, Junk(4)), File(<<n_in, B_png>>, 1, Img(2)),
     Dir(<<n_in, d_png>>), File(<<n_in, bad_jpg>>, 3, Junk(3)),
     File(<<n_in, a_png>>, 2, Img(1)) >>

Reverse(s) == [i \in 1..Len(s) |-> s[Len(s) + 1 - i]]

ConvListings ==
  LET held == {X \in SUBSET Range(ConvOrder) : Cardinality(X) <= MaxEntries}
  IN {Filter(ConvOrder, X) : X \in held}
       \cup {Filter(Reverse(ConvOrder), X) : X \in held}

\* a sub-directory comes with a file nested in it
AddNested(s) ==
  IF \E i \in 1..Len(s) : s[i].path = <<n_in, d_png>>
  THEN Append(s, File(<<n_in, d_png, x_png>>, 1, Img(5)))
  ELSE s

\* the output directory: absent, empty, or holding an earlier out.pdf
OutDirStates ==
  { <<>>, <<Dir(OutDir)>>,
    <<Dir(OutDir), File(<<n_out, out_pdf>>, 1, [t |-> "pdf", v |-> <<9>>])>> }

InputDirs == {InDir, <<n_missing>>, <<n_in, a_png>>}
OutputPaths == { <<n_out, out_pdf>>, <<n_in, out_pdf>>, <<n_in, out_png>> }
ListFormats ==
  { None, Some(<<>>), Some(<<f_png>>), Some(<<f_PNG, f_dotJPG>>),
    Some(<<f_exe, f_gif>>), Some(<<f_exe>>) }
ConvFormats == { None, Some(<<>>), Some(<<f_PNG>>), Some(<<f_exe, f_dotJPG>>) }
SortOrders == {"name", "modified", "other"}

\* a request body of POST /convert: any strings
HttpRequests ==
  {Request(InDir, o, fm, so) : o \in OutputPaths, fm \in ConvFormats,
                               so \in {"name", "modified"}}
  \cup {Request(d, o, None, "name") : d \in InputDirs, o \in OutputPaths}

\* argparse: --formats has nargs="+", so a given list is never empty;
\* --sort is one of its two choices
CliRequests ==
  {r \in HttpRequests : r.image_formats # Some(<<>>)}

(***************************************************************************)
(* Listing a directory: get_image_files as a function of its inputs.       *)
(***************************************************************************)
InitRest ==
  /\ listed = NotListed
  /\ last = NoCall
  /\ prev = NoCall
  /\ calls = 0
  /\ ups = <<>>

InitList ==
  /\ fs \in {<<Dir(InDir)>> \o s : s \in SeqsNoRep(ListEntries, MaxEntries)}
  /\ InitRest

GetImageFiles ==
  \E formats \in ListFormats, sort_order \in SortOrders :
    /\ listed' = [called |-> TRUE, formats |-> formats, sort_order |-> sort_order,
                  entries |-> iterdir(fs, InDir),
                  formats_set |-> EffectiveFormats(formats),
                  result |-> get_image_files(fs, InDir, formats, sort_order)]
    /\ UNCHANGED <<fs, last, prev, calls, ups>>

NextList == GetImageFiles

SpecList == InitList /\ [][NextList]_vars

(***************************************************************************)
(* Directory conversion through POST /convert and through the command line.*)
(* A caller sends one request and may send the same request again.         *)
(***************************************************************************)
Init ==
  /\ fs \in {<<Dir(InDir)>> \o AddNested(s) \o o :
               s \in ConvListings, o \in OutDirStates}
  /\ InitRest

MayCall(via, req) ==
  \/ calls = 0
  \/ calls <= MaxRetries /\ last.via = via /\ last.req = req

Call(via, req, write_fails) ==
  LET res == convert_images_to_pdf(fs, req.input_dir, req.output_pdf_path, req.image_formats, req.sort_order, write_fails)
  IN /\ fs' = res.fs
     /\ prev' = [last EXCEPT !.before = <<>>]
     /\ last' = [via |-> via, req |-> req, before |-> fs, res |-> Outcome(res),
                 out_after |-> Content(res.fs, req.output_pdf_path),
                 status |-> IF via # "http" THEN 0
                            ELSE IF res.raised THEN http_status(res.exc) ELSE 200,
                 exit_code |-> IF via # "cli" THEN -1 ELSE cli_exit_code(res)]
     /\ calls' = calls + 1
     /\ UNCHANGED <<listed, ups>>

\* convert_directory_to_pdf
HttpConvert ==
  \E req \in HttpRequests, write_fails \in BOOLEAN :
    MayCall("http", req) /\ Call("http", req, write_fails)

\* python pdf_converter_api.py --mode convert
CliConvert ==
  \E req \in CliRequests, write_fails \in BOOLEAN :
    MayCall("cli", req) /\ Call("cli", req, write_fails)

Next == HttpConvert \/ CliConvert

Spec == Init /\ [][Next]_vars

(***************************************************************************)
(* Upload conversion: POST /convert/upload.  An uploaded file is           *)
(* [filename, data].  ups holds one record per request received.           *)
(***************************************************************************)
Upload(n, d) == [filename |-> n, data |-> d]

UploadFiles ==
  { Upload(a_png, Img(1)), Upload(A_PNG, Img(2)), Upload(n_txt, Junk(3)),
    Upload(bad_jpg, Junk(4)) }

Batches == UNION {[1..k -> UploadFiles] : k \in 0..MaxUploads}

\* f"{idx:03d}_{upload_file.filename}"
StagedName(idx, filename) ==
  <<48 + ((idx \div 100) % 10), 48 + ((idx \div 10) % 10), 48 + (idx % 10), 95>>
    \o filename

\* tempfile.mkdtemp(): a directory that did not exist, under the temporary
\* root
mkdtemp(f) == TmpRoot \o <<(<<116, 48 + Len(iterdir(f, TmpRoot)) + 1>>)>>

\* save_upload_files, lines 199-214: file idx (from 0) is checked, then saved
RECURSIVE save_upload_files(_, _, _, _)
save_upload_files(f, upload_files, idx, temp_dir) ==
  IF idx >= Len(upload_files) THEN [ok |-> TRUE, fs |-> f]
  ELSE LET upload_file == upload_files[idx + 1]
           file_ext == LowerStr(Suffix(upload_file.filename))
       IN IF file_ext \notin SUPPORTED_FORMATS THEN [ok |-> FALSE, fs |-> f]
          ELSE LET file_path == temp_dir \o <<StagedName(idx, upload_file.filename)>>
                   copied == write_bytes(open_wb(f, file_path).fs, file_path,
                                         upload_file.data, FALSE)
               IN save_upload_files(copied, upload_files, idx + 1, temp_dir)

SavedPaths(upload_files, temp_dir) ==
  [i \in 1..Len(upload_files) |->
     temp_dir \o <<StagedName(i - 1, upload_files[i].filename)>>]

UploadResult(f, st, ph, has, tmp) ==
  [fs |-> f, status |-> st, phase |-> ph, has_tmp |-> has, temp_dir |-> tmp,
   staged |-> IF has THEN Len(iterdir(f, tmp)) ELSE 0]

\* convert_uploaded_images, lines 281-325.  The finally block deletes
\* nothing: its body is pass
convert_uploaded_images(f, files, write_fails) ==
  IF files = <<>> THEN UploadResult(f, 400, "failed", FALSE, <<>>)
  ELSE LET temp_dir == mkdtemp(f)
           f1 == Append(f, Dir(temp_dir))
           saved == save_upload_files(f1, files, 0, temp_dir)
           output_pdf == temp_dir \o <<output_pdf_name>>
       IN IF ~saved.ok THEN UploadResult(saved.fs, 400, "failed", TRUE, temp_dir)
          ELSE LET f2 == open_wb(saved.fs, output_pdf).fs
                   enc == img2pdf_convert(f2, SavedPaths(files, temp_dir))
               IN IF ~enc.ok THEN UploadResult(f2, 500, "failed", TRUE, temp_dir)
                  ELSE IF write_fails
                  THEN UploadResult(write_bytes(f2, output_pdf, enc.bytes, TRUE),
                                    500, "failed", TRUE, temp_dir)
                  ELSE UploadResult(write_bytes(f2, output_pdf, enc.bytes, FALSE),
                                    200, "responding", TRUE, temp_dir)

InitUpload ==
  /\ fs = <<Dir(TmpRoot)>>
  /\ InitRest

UploadConvert ==
  \E files \in Batches, write_fails \in BOOLEAN :
    /\ Len(ups) < MaxRequests
    /\ LET r == convert_uploaded_images(fs, files, write_fails)
       IN /\ fs' = r.fs
          /\ ups' = Append(ups, [files |-> files, status |-> r.status,
                                 phase |-> r.phase, has_tmp |-> r.has_tmp,
                                 temp_dir |-> r.temp_dir, staged |-> r.staged])
    /\ UNCHANGED <<listed, last, prev, calls>>

\* FileResponse: the framework sends output.pdf after the handler returned
SendFileResponse ==
  \E i \in 1..Len(ups) :
    /\ ups[i].phase = "responding"
    /\ ups' = [ups EXCEPT ![i].phase = "sent"]
    /\ UNCHANGED <<fs, listed, last, prev, calls>>

NextUpload == UploadConvert \/ SendFileResponse

SpecUpload == InitUpload /\ [][NextUpload]_vars

(***************************************************************************)
(* The properties.                                                         *)
(***************************************************************************)
\* the qualifying images of directory d: the regular files directly in it
\* whose lowercased extension is in the effective format set
Qualifying(f, d, formats) ==
  {e \in Range(f) : /\ Len(e.path) = Len(d) + 1
                    /\ Parent(e.path) = d
                    /\ e.kind = "file"
                    /\ LowerStr(Suffix(Name(e.path))) \in EffectiveFormats(formats)}

\* the other entries at or below d
Others(f, d, formats) ==
  {e \in Range(f) : /\ Len(e.path) > Len(d)
                    /\ SubSeq(e.path, 1, Len(d)) = d
                    /\ e \notin Qualifying(f, d, formats)}

Called == calls >= 1
LastOut == last.req.output_pdf_path
LastN == Cardinality(Qualifying(last.before, last.req.input_dir, last.req.image_formats))

\* C1: a directory-conversion request whose input_dir does not exist or is
\* not a directory fails with ValueError and POST /convert answers 400, not
\* 500; 500 answers only I/O and encoder failures.
C1_InvalidDirIsClientError ==
  (last.via = "http") =>
    /\ ~IsDir(last.before, last.req.input_dir) =>
         (last.res.raised /\ last.res.exc = "ValueError" /\ last.status = 400)
    /\ last.status = 500 => last.res.cause \in {"OSError", "EncoderError"}

\* C2: after convert_images_to_pdf ends, whatever the outcome, the file at
\* output_pdf_path holds the complete bytes one encoder call returned or is
\* exactly as it was before the call.
C2_OutputAllOrNothing ==
  Called =>
    \/ Content(fs, LastOut) = Content(last.before, LastOut)
    \/ /\ last.res.encoder_called
       /\ last.res.encoder_bytes.t = "pdf"
       /\ Content(fs, LastOut) = last.res.encoder_bytes

\* C3: an upload batch with a file of unsupported extension fails with 400
\* before any file of the batch is written: when the error is raised the
\* request's temporary directory holds no staged file.
C3_NothingStagedOnRejection ==
  \A i \in 1..Len(ups) :
    (ups[i].has_tmp /\ ups[i].status = 400) => ups[i].staged = 0

\* the effective format set as C4 states it
ClaimedEffective(formats) ==
  IF ~formats.some \/ formats.list = <<>> THEN SUPPORTED_FORMATS
  ELSE {NormalizeFormat(x) : x \in Range(formats.list)} \cap SUPPORTED_FORMATS

\* C4: the effective format set of get_image_files is requested /\ supported
\* (lowercased, leading dot stripped) when a format is requested, and all of
\* SUPPORTED_FORMATS when the requested list is None or empty.
C4_EffectiveFormatSet ==
  listed.called => listed.formats_set = ClaimedEffective(listed.formats)

\* C5: once an upload request that created a temporary directory has sent
\* its response or has failed, the temporary directory is deleted; no
\* sequence of requests leaves one behind.
C5_TempDirReclaimed ==
  \A i \in 1..Len(ups) :
    (ups[i].has_tmp /\ ups[i].phase \in {"sent", "failed"})
      => ~Exists(fs, ups[i].temp_dir)

\* C6: on an existing input directory with no qualifying image,
\* convert_images_to_pdf returns success = false and images_converted = 0
\* without raising, does not call the encoder, and leaves the file system
\* as it was: no output file, no parent directory created.
C6_NoImagesNoEffect ==
  (Called /\ IsDir(last.before, last.req.input_dir) /\ LastN = 0) =>
    /\ ~last.res.raised
    /\ ~last.res.success
    /\ last.res.images_converted = 0
    /\ ~last.res.encoder_called
    /\ fs = last.before

\* C6 happens: a directory that holds entries, none qualifying, converted to
\* an output whose parent directory does not exist
C6_Witness ==
  /\ Called /\ IsDir(last.before, last.req.input_dir) /\ LastN = 0
  /\ Others(last.before, last.req.input_dir, last.req.image_formats) # {}
  /\ ~Exists(last.before, Parent(LastOut))
  /\ ~last.res.raised

\* C7: the path list handed to the encoder is exactly the N qualifying files
\* of the directory, each once, whatever else the directory holds, and a
\* successful result reports images_converted = N.
C7_EncoderGetsQualifying ==
  (Called /\ IsDir(last.before, last.req.input_dir)) =>
    /\ last.res.encoder_called =>
         /\ Range(last.res.encoder_args) =
              {e.path : e \in Qualifying(last.before, last.req.input_dir,
                                         last.req.image_formats)}
         /\ Len(last.res.encoder_args) = LastN
    /\ last.res.success => last.res.images_converted = LastN
    /\ LastN > 0 => (last.res.encoder_called \/ last.res.cause = "OSError")

\* C7 happens: two qualifying images beside a sub-directory named like an
\* image and the file nested in it, converted
C7_Witness ==
  /\ Called /\ last.res.success /\ LastN = 2
  /\ \E e \in Others(last.before, last.req.input_dir, last.req.image_formats) :
       e.kind = "dir"
  /\ \E e \in Others(last.before, last.req.input_dir, last.req.image_formats) :
       e.kind = "file" /\ Len(e.path) > Len(last.req.input_dir) + 1

\* C8: the command line's conversion mode exits 0 exactly when the result
\* has success = true, and non-zero on every reported failure, "no images
\* found" included.
C8_ExitZeroIffSuccess ==
  (last.via = "cli") => (last.exit_code = 0 <=> last.res.success)

\* the sort key as C9 states it, and the place of an entry in the enumeration
KeyBefore(a, b, sort_order) ==
  IF sort_order = "modified" THEN a.mtime < b.mtime
  ELSE LowerStr(Name(a.path)) # LowerStr(Name(b.path))
       /\ StrLE(LowerStr(Name(a.path)), LowerStr(Name(b.path)))

Place(s, e) == CHOOSE i \in 1..Len(s) : s[i] = e

Names(s) == [i \in 1..Len(s) |-> Name(s[i].path)]

\* C9: get_image_files returns a permutation of the qualifying files in
\* ascending order of lowercased name (of modification time when sort_order
\* is "modified"), files of equal key in their enumeration order; B.png and
\* a.png come out as [a.png, B.png].
C9_SortedStablePermutation ==
  listed.called =>
    LET r == listed.result
        q == Qualifying(fs, InDir, listed.formats)
    IN /\ Range(r) = q
       /\ Len(r) = Cardinality(q)
       /\ \A i, j \in 1..Len(r) :
            i < j => \/ KeyBefore(r[i], r[j], listed.sort_order)
                     \/ /\ ~KeyBefore(r[j], r[i], listed.sort_order)
                        /\ Place(listed.entries, r[i]) < Place(listed.entries, r[j])
       /\ (Range(Names(r)) = {a_png, B_png} /\ listed.sort_order # "modified")
            => Names(r) = <<a_png, B_png>>

\* C9 happens: a.jpg, c.png, b.gif enumerated in that order come out by name
C9_Witness ==
  /\ listed.called /\ listed.sort_order = "name"
  /\ Names(listed.entries) = <<a_jpg, c_png, b_gif>>
  /\ Names(listed.result) = <<a_jpg, b_gif, c_png>>

\* the output path is one get_image_files picks up: directly in input_dir,
\* with an extension of the effective format set
OutputQualifies(req) ==
  /\ Parent(req.output_pdf_path) = req.input_dir
  /\ LowerStr(Suffix(Name(req.output_pdf_path))) \in EffectiveFormats(req.image_formats)

SameOutcome ==
  /\ prev.res.raised = last.res.raised
  /\ prev.res.success = last.res.success
  /\ prev.res.images_converted = last.res.images_converted
  /\ prev.out_after = last.out_after

Twice == calls >= 2 /\ ~prev.res.write_failed /\ ~last.res.write_failed

\* C10 as stated: the same call made twice in a row, with no write failing,
\* gives the same result and the same output bytes, for every
\* output_pdf_path, one inside input_dir included.
C10_IdempotentEveryOutput == Twice => SameOutcome

\* C10 amended: the same holds for every output_pdf_path that is not itself
\* picked up as an image of input_dir.
C10_IdempotentOutputNotAnInput ==
  (Twice /\ ~OutputQualifies(last.req)) => SameOutcome

\* C10 happens: a conversion into input_dir, made twice, both successful
C10_Witness ==
  /\ Twice /\ ~OutputQualifies(last.req)
  /\ Parent(LastOut) = last.req.input_dir
  /\ prev.res.success /\ last.res.success

====
